---- MODULE Spec2Model ----
(***************************************************************************)
(* The Kafka -> ClickHouse bridge of scripts/kafka_to_clickhouse_bridge.py *)
(* as a state machine: one call of KafkaClickHouseBridge.consume_and_load  *)
(* (the Stream Driver) with its poll loop, per-table batches, threshold    *)
(* flushes, end-of-run drain, and the sink as the log of insert calls;     *)
(* around it main with its start-up: connection test, table creation, the  *)
(* clearing and the fresh consumer group of --reset, and the exit status.  *)
(*                                                                         *)
(* The _kafka_timestamp column (int(time.time()), line 171) is not part of *)
(* a modelled row: no property below reads it.                             *)
(***************************************************************************)
EXTENDS Integers, Sequences, FiniteSets, TLC

\* ------------------------------------------------------------- bounds
\* batch_size is 100 in the source (line 115); the model runs it scaled down.
batch_size == 2
\* Messages (not empty polls, not error events) one run may poll from a broker
\* that carries every kind of payload, and from one that carries only well-formed
\* change events of the mapped topics.
MaxPolls == 3
MaxCleanPolls == 5
\* Largest positive message cap / time cap handed to consume_and_load.
MaxCap == 2
MaxTimeout == 1
\* The clock runs far enough for the largest time cap to be exceeded.
MaxTime == MaxTimeout + 1

\* ------------------------------------------------------------- values
\* Python's None for an optional integer argument.
None == -1
\* dict.get's None for a topic that is not mapped.
NoTable == "None"

\* self.topic_table_mapping (lines 39-43), in insertion order.
MappedTopics == <<"mongo.ecom.ecom.customers", "mongo.ecom.ecom.products", "mongo.ecom.ecom.orders">>
Tables == <<"mongo_ecom_customers", "mongo_ecom_products", "mongo_ecom_orders">>
topic_table_mapping == [i \in 1..Len(MappedTopics) |-> <<MappedTopics[i], Tables[i]>>]

\* A topic the broker may deliver that the mapping does not hold.
UnknownTopic == "mongo.ecom.ecom.reviews"
Topics == {MappedTopics[i] : i \in 1..Len(MappedTopics)} \cup {UnknownTopic}
TableSet == {Tables[i] : i \in 1..Len(Tables)}
\* The partition ids a topic may be consumed from.
Partitions == {0, 1}

\* (mutant) a topic the mapping does not hold is routed to the first table.
TableOf_fallback(topic) ==
  IF \E i \in 1..Len(topic_table_mapping) : topic_table_mapping[i][1] = topic
  THEN (CHOOSE p \in {topic_table_mapping[i] : i \in 1..Len(topic_table_mapping)} : p[1] = topic)[2]
  ELSE Tables[1]

\* self.topic_table_mapping.get(topic) (line 144).
TableOf(topic) ==
  IF \E i \in 1..Len(topic_table_mapping) : topic_table_mapping[i][1] = topic
  THEN (CHOOSE p \in {topic_table_mapping[i] : i \in 1..Len(topic_table_mapping)} : p[1] = topic)[2]
  ELSE NoTable

\* ----------------------------------------------------------- payloads
\* The message values the broker delivers: the bytes of msg.value().
P_empty == ""
P_blank == "  "
P_badutf8 == "<0xff 0xfe>"
P_malformed == "{\"id\": 1"
P_object == "{\"id\": 1, \"name\": \"a\"}"
P_notdeleted == "{\"id\": 2, \"__deleted\": false}"
P_deleted == "{\"id\": 3, \"__deleted\": true}"
P_deleted_one == "{\"id\": 4, \"__deleted\": 1}"
P_array == "[1, 2]"
Payloads == {P_empty, P_blank, P_badutf8, P_malformed, P_object, P_notdeleted,
             P_deleted, P_deleted_one, P_array}

\* What the broker holds for a run: the payloads each topic delivers and how many
\* messages in all. One broker carries every kind of payload on two of the mapped
\* topics besides a stray topic; the other carries only well-formed change events
\* on all three mapped topics. The consumer is assigned one partition of each
\* topic, partition 1 for the orders topic and partition 0 for the others.
AssignedPartitions == [t \in Topics |-> IF t = MappedTopics[3] THEN {1} ELSE {0}]
MixedBroker ==
  [payloads |-> [t \in Topics |->
                   IF t \in {MappedTopics[1], MappedTopics[3]} THEN Payloads
                   ELSE IF t = UnknownTopic THEN {P_object} ELSE {}],
   partitions |-> AssignedPartitions,
   polls |-> MaxPolls]
CleanBroker ==
  [payloads |-> [t \in Topics |-> IF t = UnknownTopic THEN {} ELSE {P_object}],
   partitions |-> AssignedPartitions,
   polls |-> MaxCleanPolls]
Brokers == {MixedBroker, CleanBroker}

\* bytes.decode('utf-8') (line 151): raises UnicodeDecodeError on bytes that are
\* no UTF-8, otherwise yields the text of the bytes.
DecodeRaises(value) == value = P_badutf8

\* str.strip() (line 154).
Strip(text) == IF text = P_blank THEN "" ELSE text

\* json.loads (line 159): "error" for JSONDecodeError, else the Python type of the
\* parsed value and, for a dict, what .get('__deleted') returns.
json_loads(text) ==
  CASE text \in {P_empty, P_blank, P_malformed, P_badutf8}
         -> [type |-> "error", deleted |-> "None"]
    [] text = P_object      -> [type |-> "dict", deleted |-> "None"]
    [] text = P_notdeleted  -> [type |-> "dict", deleted |-> "False"]
    [] text = P_deleted     -> [type |-> "dict", deleted |-> "True"]
    [] text = P_deleted_one -> [type |-> "dict", deleted |-> "1"]
    [] text = P_array       -> [type |-> "list", deleted |-> "None"]

\* (mutant) the marker compared with the text "true".
EqualsTrue_text(x) == x = "true"

\* Python's `x == True` (line 161): True and the integer 1 are equal to True.
EqualsTrue(x) == x \in {"True", "1"}

\* ------------------------------------------------------------- state
VARIABLES
  realtime,         \* consume_and_load's arguments (line 102)
  max_messages,
  timeout_seconds,
  pc,               \* "loop" | "drain" | "stopped" | "failed" | "interrupted"
  msg,              \* what the latest consumer.poll returned (line 125)
  message_count,    \* line 114
  batch_data,       \* line 116: table -> list of rows
  drain_i,          \* position of the drain loop (line 200) in batch_data.items()
  consumer_closed,  \* consumer.close() was called (line 204)
  now,              \* time.time(), in poll timeouts, since start_time
  start_time,       \* line 117
  inserts,          \* the sink: every clickhouse_client.insert call, in order
  broker,           \* the broker: what it holds for this run
  next_offset,      \* the broker: next offset of each (topic, partition)
  polled,           \* number of messages polled so far
  source,           \* history: per table, the rows of the polled messages that rules
                    \* 1-3 of the Record Filter do not drop, in poll order
  main_pc,          \* main's position: "construct" | "test_connections" |
                    \* "create_tables" | "reset" | "consume" | "exited"
  argv,             \* sys.argv[1] (lines 255-270)
  connections,      \* outcome of the client constructor and of test_connections
  create_result,    \* create_tables: "not_run" | "ok" | "failed" (some statement raised)
  clear_ran,        \* clear_tables was called
  old_rows,         \* the sink: the tables that hold rows stored before this run
  group_id,         \* kafka_config['group.id'] (lines 23, 286)
  consumer_group,   \* group.id of the consumer that subscribed (lines 111-112)
  exit_status       \* the process's exit status, None while it runs

vars == <<realtime, max_messages, timeout_seconds, pc, msg, message_count, batch_data,
          drain_i, consumer_closed, now, start_time, inserts, broker, next_offset, polled, source,
          main_pc, argv, connections, create_result, clear_ran, old_rows, group_id,
          consumer_group, exit_status>>

\* main's own state: consume_and_load leaves it alone.
main_vars == <<main_pc, argv, connections, create_result, clear_ran, old_rows, group_id,
               consumer_group, exit_status>>

\* The arguments and the environment, fixed for one call of consume_and_load.
fixed == <<realtime, max_messages, timeout_seconds, start_time, broker, main_vars>>

\* kafka_config['group.id'] as the constructor sets it (line 23) and as --reset
\* replaces it (line 286); NoGroup while no consumer has subscribed.
SharedGroup == "clickhouse-bridge-group"
FreshGroup == "clickhouse-bridge-reset-<int(time.time())>"
NoGroup == "None"

\* main's state when it calls consume_and_load in a run without --reset: both
\* connections answered, every table was created or found, the shared group.
MainAtConsume ==
  /\ main_pc = "consume"
  /\ argv = IF realtime THEN "--realtime" ELSE "--batch"
  /\ connections = "ok"
  /\ create_result = "ok"
  /\ clear_ran = FALSE
  /\ old_rows = {}
  /\ group_id = SharedGroup
  /\ consumer_group = SharedGroup
  /\ exit_status = None

NoMsg == [kind |-> "unset", topic |-> "", partition |-> 0, offset |-> 0, value |-> ""]

\* (mutant) an optional integer tested with `is not None`: 0 counts as given.
Truthy_not_none(x) == x # None

\* Python truthiness of an optional integer: None and 0 are false.
Truthy(x) == x # None /\ x # 0

Caps == {None, 0} \cup (1..MaxCap)
Timeouts == {None, 0} \cup (1..MaxTimeout)

\* State on entry to the poll loop (lines 110-117), for the argument triples A
\* (<<realtime, max_messages, timeout_seconds>>) and the brokers B.
InitWith(A, B) ==
  /\ \E a \in A : realtime = a[1] /\ max_messages = a[2] /\ timeout_seconds = a[3]
  /\ pc = "loop"
  /\ msg = NoMsg
  /\ message_count = 0
  /\ batch_data = [t \in TableSet |-> <<>>]
  /\ drain_i = 1
  /\ consumer_closed = FALSE
  /\ now = 0
  /\ start_time = 0
  /\ inserts = <<>>
  /\ broker \in B
  /\ next_offset = [t \in Topics |-> [p \in Partitions |-> 0]]
  /\ polled = 0
  /\ source = [t \in TableSet |-> <<>>]
  /\ MainAtConsume

Init == InitWith(BOOLEAN \X Caps \X Timeouts, Brokers)

\* ------------------------------------------------------------ the loop
\* The branch of the loop body (lines 142-197) a polled message takes.
Outcome(m) ==
  IF TableOf(m.topic) = NoTable THEN "unknown_topic"
  ELSE IF DecodeRaises(m.value) THEN "exception"
  ELSE IF m.value = "" \/ Strip(m.value) = "" THEN "empty"
  ELSE IF json_loads(m.value).type = "error" THEN "invalid_json"
  ELSE IF json_loads(m.value).type # "dict" THEN "exception"
  ELSE IF EqualsTrue(json_loads(m.value).deleted) THEN "deleted"
  ELSE "keep"

\* The Record Filter as the specification words it: a payload is dropped when it
\* is empty or whitespace-only, when it does not parse as JSON, or when it parses
\* and carries the deletion marker set; every other payload is to be kept,
\* whatever its JSON shape. A marker written as the number 1 is taken as set.
IsEmptyPayload(value) == value \in {P_empty, P_blank}
IsMalformedPayload(value) == value \in {P_malformed, P_badutf8}
IsTombstonePayload(value) == value \in {P_deleted, P_deleted_one}
RulesKeep(value) ==
  ~IsEmptyPayload(value) /\ ~IsMalformedPayload(value) /\ ~IsTombstonePayload(value)

\* (mutant) the offset and the partition in each other's column.
DataRow_swapped(m) ==
  [raw_data |-> m.value, _kafka_offset |-> m.partition, _kafka_partition |-> m.offset]

\* data_row (lines 169-174) without its timestamp.
DataRow(m) == [raw_data |-> m.value, _kafka_offset |-> m.offset, _kafka_partition |-> m.partition]

\* (mutant) the row put at the head of the buffer.
AppendRow_front(data, row) == <<row>> \o data

\* batch_data[table_name].append(data_row) (line 176).
AppendRow(data, row) == Append(data, row)

\* (mutant) the drain without its emptiness test.
HasRows_always(data) == TRUE

\* The truth value of a buffer in `if data:` (line 201).
HasRows(data) == data # <<>>

\* (mutant) the threshold test with > for >=.
ShouldFlush_gt(data) == Len(data) > batch_size

\* The threshold test of line 180.
ShouldFlush(data) == Len(data) >= batch_size

\* (mutant) the message-limit test without its mode guard.
LimitReached_anymode(count) == Truthy(max_messages) /\ count >= max_messages

\* The message-limit test of line 191.
LimitReached(count) == ~realtime /\ Truthy(max_messages) /\ count >= max_messages

\* (mutant) the timeout test with the subtraction reversed.
TimedOut_reversed ==
  ~realtime /\ Truthy(timeout_seconds) /\ start_time - now > timeout_seconds

\* The timeout test of line 129.
TimedOut == ~realtime /\ Truthy(timeout_seconds) /\ now - start_time > timeout_seconds

\* (mutant) the counter advanced for every polled message.
NextCount_all(count, m) == count + 1

\* message_count after one pass of the loop body over message m: line 177 is
\* reached only by a message that no `continue` (lines 148-166, 197) skipped.
NextCount(count, m) == IF Outcome(m) = "keep" THEN count + 1 ELSE count

\* The clickhouse_client.insert call of _insert_batch (line 214); ok is whether
\* the sink accepted it.
InsertBatch(table_name, data, ok) ==
  inserts' = Append(inserts, [table |-> table_name, data |-> data, ok |-> ok])

\* (mutant) _insert_batch without its try/except.
InsertRaises_uncaught(ok) == ~ok

\* Whether _insert_batch raises into its caller: its try/except (lines 212-217)
\* catches every Exception of the insert call.
InsertRaises(ok) == FALSE

\* (mutant) a batch the sink refused stays in its buffer, to be written again.
AfterFlush_requeue(data, ok) == IF ok THEN <<>> ELSE data

\* The table's buffer after a threshold flush (line 182).
AfterFlush(data, ok) == <<>>

\* consumer.poll returned None (lines 127-132).
PollNone ==
  /\ pc = "loop"
  /\ msg' = [NoMsg EXCEPT !.kind = "none"]
  /\ pc' = IF TimedOut THEN "drain" ELSE "loop"
  /\ UNCHANGED <<fixed, message_count, batch_data, drain_i, consumer_closed,
                 now, inserts, next_offset, polled, source>>

\* consumer.poll returned an error event (lines 134-140): end of partition or other.
PollError(kind) ==
  /\ pc = "loop"
  /\ msg' = [NoMsg EXCEPT !.kind = kind]
  /\ UNCHANGED <<fixed, pc, message_count, batch_data, drain_i,
                 consumer_closed, now, inserts, next_offset, polled, source>>

\* consumer.poll returned a message: one pass of lines 142-197.
PollMessage(topic, partition, value) ==
  /\ pc = "loop"
  /\ polled < broker.polls
  /\ value \in broker.payloads[topic]
  /\ partition \in broker.partitions[topic]
  /\ LET m == [kind |-> "message", topic |-> topic, partition |-> partition,
               offset |-> next_offset[topic][partition], value |-> value]
         table_name == TableOf(topic)
     IN /\ msg' = m
        /\ next_offset' = [next_offset EXCEPT ![topic][partition] = @ + 1]
        /\ polled' = polled + 1
        /\ source' = IF table_name # NoTable /\ RulesKeep(value)
                     THEN [source EXCEPT ![table_name] = Append(@, DataRow(m))]
                     ELSE source
        /\ message_count' = NextCount(message_count, m)
        /\ IF Outcome(m) = "keep"
           THEN LET data == AppendRow(batch_data[table_name], DataRow(m))
                    after == IF LimitReached(NextCount(message_count, m))
                             THEN "drain" ELSE "loop"
                IN IF ShouldFlush(data)
                   THEN \E ok \in BOOLEAN :
                          /\ InsertBatch(table_name, data, ok)
                          /\ IF InsertRaises(ok)
                             THEN \* line 195 catches it: `continue`
                                  /\ batch_data' = [batch_data EXCEPT ![table_name] = data]
                                  /\ pc' = "loop"
                             ELSE /\ batch_data' = [batch_data EXCEPT
                                                      ![table_name] = AfterFlush(data, ok)]
                                  /\ pc' = after
                   ELSE /\ batch_data' = [batch_data EXCEPT ![table_name] = data]
                        /\ pc' = after
                        /\ UNCHANGED inserts
           ELSE UNCHANGED <<batch_data, inserts, pc>>
  /\ UNCHANGED <<fixed, drain_i, consumer_closed, now>>

\* consumer.poll (or anything outside the inner try) raised: line 207 catches it.
PollRaises ==
  /\ pc = "loop"
  /\ pc' = "failed"
  /\ UNCHANGED <<fixed, msg, message_count, batch_data, drain_i,
                 consumer_closed, now, inserts, next_offset, polled, source>>

\* One pass of the drain loop (lines 200-202) over batch_data.items().
DrainStep ==
  /\ pc = "drain"
  /\ drain_i <= Len(Tables)
  /\ LET table_name == Tables[drain_i]
         data == batch_data[table_name]
     IN IF HasRows(data)
        THEN \E ok \in BOOLEAN :
               /\ InsertBatch(table_name, data, ok)
               /\ IF InsertRaises(ok)
                  THEN \* line 207 catches it: the rest of the drain is skipped
                       pc' = "failed" /\ drain_i' = drain_i
                  ELSE pc' = pc /\ drain_i' = drain_i + 1
        ELSE /\ drain_i' = drain_i + 1
             /\ UNCHANGED <<inserts, pc>>
  /\ UNCHANGED <<fixed, msg, message_count, batch_data,
                 consumer_closed, now, next_offset, polled, source>>

\* consumer.close() and the normal return (lines 204-205).
Close ==
  /\ pc = "drain"
  /\ drain_i > Len(Tables)
  /\ consumer_closed' = TRUE
  /\ pc' = "stopped"
  /\ UNCHANGED <<fixed, msg, message_count, batch_data, drain_i,
                 now, inserts, next_offset, polled, source>>

\* KeyboardInterrupt: a BaseException, so neither `except Exception` (lines 195,
\* 207) catches it; it leaves consume_and_load at once (main, lines 293-296).
Interrupt ==
  /\ pc \in {"loop", "drain"}
  /\ pc' = "interrupted"
  /\ UNCHANGED <<fixed, msg, message_count, batch_data, drain_i,
                 consumer_closed, now, inserts, next_offset, polled, source>>

\* A poll timeout's worth of time passes.
Tick ==
  /\ pc = "loop"
  /\ now < MaxTime
  /\ now' = now + 1
  /\ UNCHANGED <<fixed, pc, msg, message_count, batch_data,
                 drain_i, consumer_closed, inserts, next_offset, polled, source>>

Next ==
  \/ PollNone
  \/ \E kind \in {"eof", "error"} : PollError(kind)
  \/ \E topic \in Topics, partition \in Partitions, value \in Payloads :
       PollMessage(topic, partition, value)
  \/ PollRaises
  \/ DrainStep
  \/ Close
  \/ Interrupt
  \/ Tick

\* Every mode and argument of consume_and_load.
Spec == Init /\ [][Next]_vars

\* Bounded (batch) runs, each cap given or not.
SpecBatch == InitWith({FALSE} \X {None, MaxCap} \X {None, MaxTimeout}, Brokers) /\ [][Next]_vars

\* Continuous (real-time) runs, as main starts them and with caps supplied,
\* beside a bounded run with the same caps.
SpecModes ==
  /\ InitWith({<<TRUE, None, None>>, <<TRUE, MaxCap, MaxTimeout>>,
               <<FALSE, MaxCap, MaxTimeout>>}, Brokers)
  /\ [][Next]_vars

\* Bounded runs with each cap absent, zero or positive, on a stream of
\* well-formed change events.
SpecCaps ==
  /\ InitWith({FALSE} \X {None, 0, MaxCap} \X {None, 0, MaxTimeout}, {CleanBroker})
  /\ [][Next]_vars

\* One pass of the driver: the poll loop is never idle (poll returns within its
\* timeout) and the drain and the close follow without waiting.
DriverStep ==
  \/ PollNone
  \/ \E kind \in {"eof", "error"} : PollError(kind)
  \/ \E topic \in Topics, partition \in Partitions, value \in Payloads :
       PollMessage(topic, partition, value)
  \/ DrainStep
  \/ Close

\* Bounded runs with a positive message cap and a positive time cap, the driver
\* running on.
SpecBatchFair ==
  /\ InitWith({<<FALSE, MaxCap, MaxTimeout>>}, Brokers)
  /\ [][Next]_vars
  /\ WF_vars(DriverStep)

\* ---------------------------------------------------------------- main
\* (mutant) the connection test answers for the sink alone.
test_connections_sink_only(clickhouse_ok, kafka_ok) == clickhouse_ok

\* test_connections (lines 84-100): True when SELECT 1 and list_topics both
\* return, False when either raises.
test_connections(clickhouse_ok, kafka_ok) == clickhouse_ok /\ kafka_ok

\* The arguments main hands to consume_and_load (lines 294, 300, 303), the caps
\* scaled down: 5000 / 120 s and 3500 / 60 s both become MaxCap / MaxTimeout.
ArgsOf(a) ==
  IF a \in {"--batch", "--reset"} THEN <<FALSE, MaxCap, MaxTimeout>> ELSE <<TRUE, None, None>>

\* The process at the first line of main, for the command lines A; every
\* destination table holds rows of an earlier run.
InitMain(A) ==
  /\ argv \in A
  /\ realtime = ArgsOf(argv)[1]
  /\ max_messages = ArgsOf(argv)[2]
  /\ timeout_seconds = ArgsOf(argv)[3]
  /\ pc = "idle"
  /\ msg = NoMsg
  /\ message_count = 0
  /\ batch_data = [t \in TableSet |-> <<>>]
  /\ drain_i = 1
  /\ consumer_closed = FALSE
  /\ now = 0
  /\ start_time = 0
  /\ inserts = <<>>
  /\ broker = CleanBroker
  /\ next_offset = [t \in Topics |-> [p \in Partitions |-> 0]]
  /\ polled = 0
  /\ source = [t \in TableSet |-> <<>>]
  /\ main_pc = "construct"
  /\ connections = "untested"
  /\ create_result = "not_run"
  /\ clear_ran = FALSE
  /\ old_rows = TableSet
  /\ group_id = SharedGroup
  /\ consumer_group = NoGroup
  /\ exit_status = None

driver_vars == <<realtime, max_messages, timeout_seconds, pc, msg, message_count,
                 batch_data, drain_i, consumer_closed, now, start_time, inserts, broker,
                 next_offset, polled, source>>

\* KafkaClickHouseBridge() (line 247): get_client (lines 29-35) may raise, and
\* nothing in main catches it. With --help main then returns (lines 262-268).
Construct ==
  /\ main_pc = "construct"
  /\ \E ok \in BOOLEAN :
       IF ~ok
       THEN /\ connections' = "client_failed"
            /\ main_pc' = "exited"
            /\ exit_status' = 1
       ELSE /\ connections' = connections
            /\ IF argv = "--help"
               THEN main_pc' = "exited" /\ exit_status' = 0
               ELSE main_pc' = "test_connections" /\ exit_status' = exit_status
  /\ UNCHANGED <<driver_vars, argv, create_result, clear_ran, old_rows, group_id,
                 consumer_group>>

\* Lines 272-275: the connection test and main's return when it fails. The
\* test's own consumer lists topics and closes; it never subscribes.
TestConnections ==
  /\ main_pc = "test_connections"
  /\ \E clickhouse_ok \in BOOLEAN, kafka_ok \in BOOLEAN :
       /\ connections' = IF ~clickhouse_ok THEN "clickhouse_failed"
                         ELSE IF ~kafka_ok THEN "kafka_failed" ELSE "ok"
       /\ IF test_connections(clickhouse_ok, kafka_ok)
          THEN main_pc' = "create_tables" /\ exit_status' = exit_status
          ELSE main_pc' = "exited" /\ exit_status' = 0
  /\ UNCHANGED <<driver_vars, argv, create_result, clear_ran, old_rows, group_id,
                 consumer_group>>

\* create_tables (lines 45-82, called at line 279): each CREATE TABLE IF NOT
\* EXISTS runs in its own try/except that logs; the function returns either way.
CreateTables ==
  /\ main_pc = "create_tables"
  /\ \E failed \in SUBSET TableSet :
       create_result' = IF failed = {} THEN "ok" ELSE "failed"
  /\ main_pc' = IF argv = "--reset" THEN "reset" ELSE "consume"
  /\ UNCHANGED <<driver_vars, argv, connections, clear_ran, old_rows, group_id,
                 consumer_group, exit_status>>

\* Lines 282-287: clear_tables (lines 219-228), each TRUNCATE in its own
\* try/except that logs, then the fresh group.id.
ResetTables ==
  /\ main_pc = "reset"
  /\ \E failed \in SUBSET TableSet : old_rows' = old_rows \cap failed
  /\ clear_ran' = TRUE
  /\ group_id' = FreshGroup
  /\ main_pc' = "consume"
  /\ UNCHANGED <<driver_vars, argv, connections, create_result, consumer_group,
                 exit_status>>

\* consume_and_load up to the loop (lines 104-122): the consumer is built from
\* kafka_config and subscribes.
Subscribe ==
  /\ main_pc = "consume"
  /\ pc = "idle"
  /\ consumer_group' = group_id
  /\ pc' = "loop"
  /\ UNCHANGED <<realtime, max_messages, timeout_seconds, msg, message_count,
                 batch_data, drain_i, consumer_closed, now, start_time, inserts, broker,
                 next_offset, polled, source, main_pc, argv, connections, create_result,
                 clear_ran, old_rows, group_id, exit_status>>

\* Consumer(...) or subscribe raised (lines 111-112): line 207 catches it.
SubscribeRaises ==
  /\ main_pc = "consume"
  /\ pc = "idle"
  /\ pc' = "failed"
  /\ UNCHANGED <<fixed, msg, message_count, batch_data, drain_i,
                 consumer_closed, now, inserts, next_offset, polled, source>>

\* The status the process exits with once consume_and_load is left: a
\* KeyboardInterrupt is caught in the continuous branch only (lines 293-296);
\* elsewhere it ends the process with a traceback. Every return of
\* consume_and_load, the one of line 208 included, leads to the end of main.
StatusAfter(driver_pc) == IF driver_pc = "interrupted" /\ ~realtime THEN 1 ELSE 0

\* Lines 296-307 and the end of the process.
Finish ==
  /\ main_pc = "consume"
  /\ pc \in {"stopped", "failed", "interrupted"}
  /\ main_pc' = "exited"
  /\ exit_status' = StatusAfter(pc)
  /\ UNCHANGED <<driver_vars, argv, connections, create_result, clear_ran, old_rows,
                 group_id, consumer_group>>

NextMain ==
  \/ Construct
  \/ TestConnections
  \/ CreateTables
  \/ ResetTables
  \/ Subscribe
  \/ SubscribeRaises
  \/ Finish
  \/ Next

\* The whole process, for each command line.
SpecMain ==
  InitMain({"--realtime", "--batch", "--reset", "--help"}) /\ [][NextMain]_vars

\* ------------------------------------------------------ reading the sink
\* The positions <<i, j>> of the rows handed to the sink for table t: row j of
\* insert call i.
Places(t) ==
  {p \in (1..Len(inserts)) \X (1..batch_size + 1) :
     inserts[p[1]].table = t /\ p[2] <= Len(inserts[p[1]].data)}
RowAt(p) == inserts[p[1]].data[p[2]]
\* The rows handed to the sink for table t, in any call, accepted or not.
Handed(t) == {RowAt(p) : p \in Places(t)}
AllAccepted == \A i \in 1..Len(inserts) : inserts[i].ok
RowsOfSeq(rows) == {rows[i] : i \in 1..Len(rows)}
AllBuffersEmpty == \A t \in TableSet : batch_data[t] = <<>>
\* The step polled a message: msg' is that message.
PolledMessage == polled' = polled + 1
\* What the claims call a dropped payload: empty, malformed or a tombstone.
DroppedPayload(value) ==
  IsEmptyPayload(value) \/ IsMalformedPayload(value) \/ IsTombstonePayload(value)

\* ------------------------------------------------------------- claims

\* C1: in continuous mode, when the operator's interrupt arrives while some
\* buffer is non-empty, every row that was buffered at that moment has been
\* passed to the sink before the process exits (cancellation drains).
CancellationDrains ==
  (realtime /\ pc = "interrupted") =>
    \A t \in TableSet : RowsOfSeq(batch_data[t]) \subseteq Handed(t)

\* C2: a bounded run that ends through its message cap or its timeout, with
\* no failing sink write, has flushed every buffer when it stops, and the sink
\* holds exactly the kept messages: each message on a mapped topic that is
\* neither empty, malformed nor a tombstone is in exactly one insert call, and
\* no other row is.
BoundedRunStoresKept ==
  (~realtime /\ pc = "stopped" /\ AllAccepted) =>
    \A t \in TableSet :
       /\ RowsOfSeq(batch_data[t]) \subseteq Handed(t)
       /\ Handed(t) = RowsOfSeq(source[t])
       /\ Cardinality(Places(t)) = Len(source[t])

\* C3: a message whose payload is empty or whitespace-only, does not parse as
\* JSON, or carries __deleted set to true is appended to no batch, whatever
\* its topic and its place in the stream, and no such payload is ever handed to
\* the sink.
DroppedNeverStored ==
  /\ [][(PolledMessage /\ DroppedPayload(msg'.value)) =>
          (batch_data' = batch_data /\ inserts' = inserts)]_vars
  /\ [](\A t \in TableSet :
          /\ \A r \in Handed(t) : ~DroppedPayload(r.raw_data)
          /\ \A r \in RowsOfSeq(batch_data[t]) : ~DroppedPayload(r.raw_data))

\* C3's case: a tombstone was polled on a mapped topic after a kept message, and
\* the buffers hold the kept message alone.
DroppedNeverStoredWitness ==
  /\ msg.kind = "message"
  /\ msg.value = P_deleted
  /\ TableOf(msg.topic) # NoTable
  /\ batch_data[TableOf(msg.topic)] # <<>>
  /\ polled = 2
  /\ message_count = 1

\* C4: every message on a mapped topic whose payload is non-empty, parses as
\* JSON of any shape and does not carry the deletion marker as boolean true gets
\* exactly one row, with its payload unmodified, appended to its topic's batch.
KeptAppended ==
  [][(PolledMessage /\ TableOf(msg'.topic) # NoTable /\ RulesKeep(msg'.value)) =>
       LET t == TableOf(msg'.topic)
           data == Append(batch_data[t], DataRow(msg'))
       IN /\ DataRow(msg').raw_data = msg'.value
          /\ \A u \in TableSet \ {t} : batch_data'[u] = batch_data[u]
          /\ \/ batch_data'[t] = data /\ inserts' = inserts
             \/ /\ batch_data'[t] = <<>>
                /\ \E ok \in BOOLEAN :
                     inserts' = Append(inserts, [table |-> t, data |-> data, ok |-> ok])]_vars

\* C5: at every poll boundary every table's buffer is shorter than the batch
\* size threshold, and every batch handed to the sink is no longer than the
\* threshold, also after a flush whose sink write failed.
BatchWithinThreshold ==
  /\ pc = "loop" => \A t \in TableSet : Len(batch_data[t]) < batch_size
  /\ \A i \in 1..Len(inserts) : Len(inserts[i].data) <= batch_size

\* C5's case: a threshold flush failed, and the same table's next batch filled
\* up and was flushed in its turn.
BatchWithinThresholdWitness ==
  /\ pc = "loop"
  /\ \E i, j \in 1..Len(inserts) :
       /\ i < j
       /\ inserts[i].table = inserts[j].table
       /\ ~inserts[i].ok
       /\ Len(inserts[i].data) = batch_size
       /\ Len(inserts[j].data) = batch_size
  /\ \E t \in TableSet : batch_data[t] # <<>>

\* The batch sizes the claim of C6 gives for N rows of table t: N \div batch_size
\* full batches, then one of N % batch_size rows unless that is 0.
FloorAndRemainder(t, N) ==
  /\ Len(inserts) = (N \div batch_size) + (IF N % batch_size = 0 THEN 0 ELSE 1)
  /\ \A i \in 1..Len(inserts) :
       /\ inserts[i].table = t
       /\ Len(inserts[i].data) = IF i <= N \div batch_size THEN batch_size
                                 ELSE N % batch_size
  /\ Cardinality(Places(t)) = N

\* C6: a bounded run that polled N well-formed, non-tombstone messages, all of
\* one mapped topic, and nothing else, has handed the sink N \div batch_size full
\* batches and then, at drain, one batch of N % batch_size rows (none when that
\* is 0); N rows are stored.
BatchesOfOneTopic ==
  \A t \in TableSet :
    (~realtime /\ pc = "stopped" /\ AllAccepted /\ polled = Len(source[t])) =>
      FloorAndRemainder(t, polled)

\* C6, C2 on a broker that delivers JSON objects only (auxiliary): the batch
\* sizes and the stored rows are as the claims say.
ObjectsBatchedAndStored ==
  broker = CleanBroker => (BatchesOfOneTopic /\ BoundedRunStoresKept)

AppendedRow == pc = "loop" /\ (batch_data' # batch_data \/ inserts' # inserts)

BoundedRunLeavesLoop ==
  (/\ ~realtime /\ Truthy(max_messages) /\ Truthy(timeout_seconds)
   /\ (message_count >= max_messages \/ now - start_time > timeout_seconds))
    ~> (pc # "loop")

\* C8 as amended: a bounded run leaves the loop on the step that brings the
\* counter of kept messages to a positive message cap, and on an empty poll
\* that finds the elapsed time above a positive time cap, and on no other poll;
\* once it drains it reaches STOPPED unless the operator interrupts it.
BoundedRunStopsOnCapOrEmptyPoll ==
  /\ [][/\ (~realtime /\ PollNone) =>
             (pc' = "drain" <=>
                (Truthy(timeout_seconds) /\ now - start_time > timeout_seconds))
        /\ (~realtime /\ pc = "loop" /\ message_count' # message_count) =>
             (pc' = "drain" <=>
                (Truthy(max_messages) /\ message_count' >= max_messages))
        /\ (pc = "loop" /\ pc' = "drain") =>
             (PollNone \/ message_count' # message_count)]_vars
  /\ (pc = "drain") ~> (pc \in {"stopped", "interrupted"})

\* C8's case: the run stopped on its time cap with rows drained.
BoundedRunStopsWitness ==
  /\ pc = "stopped"
  /\ msg.kind = "none"
  /\ now - start_time > timeout_seconds
  /\ message_count < max_messages
  /\ inserts # <<>>

\* C9: in continuous mode no step of the driver leaves the loop: not a count
\* above a supplied message cap, not the time above a supplied time cap, not an
\* empty poll, a dropped or failing message, or a failed sink write. The run
\* never drains or stops; only the operator's interrupt (or an exception of the
\* poll call itself) ends the loop.
ContinuousNeverStops ==
  /\ [][(realtime /\ pc = "loop" /\ pc' # "loop") => (Interrupt \/ PollRaises)]_vars
  /\ [](realtime => pc \notin {"drain", "stopped"})

\* C9's case: a continuous run still polling with its supplied caps exceeded, a
\* sink write failed and the latest poll empty.
ContinuousNeverStopsWitness ==
  /\ realtime
  /\ pc = "loop"
  /\ Truthy(max_messages) /\ message_count > max_messages
  /\ Truthy(timeout_seconds) /\ now - start_time > timeout_seconds
  /\ \E i \in 1..Len(inserts) : ~inserts[i].ok
  /\ msg.kind = "none"

\* Table t's remaining buffer was handed to the sink by the drain.
Drained(t) ==
  batch_data[t] # <<>> =>
    \E i \in 1..Len(inserts) : inserts[i].table = t /\ inserts[i].data = batch_data[t]

\* C10: a failed sink write does not end the run. After a failed threshold
\* flush the driver is where a successful one would leave it (polling, or
\* draining when the cap is reached); a failed drain flush moves on to the next
\* table; a stopped run has handed every remaining buffer to the sink.
SinkFailureDoesNotStop ==
  /\ [][(inserts' # inserts /\ ~inserts'[Len(inserts')].ok) =>
          /\ pc = "loop" =>
               pc' = IF LimitReached(message_count') THEN "drain" ELSE "loop"
          /\ pc = "drain" => (pc' = "drain" /\ drain_i' = drain_i + 1)]_vars
  /\ [](/\ pc = "drain" => \A k \in 1..(drain_i - 1) : Drained(Tables[k])
        /\ pc = "stopped" => \A t \in TableSet : Drained(t))

\* C10's case: a threshold flush failed, a later batch of the same table was
\* accepted, and at drain a table's flush failed and the next table's was
\* accepted.
SinkFailureDoesNotStopWitness ==
  /\ pc = "stopped"
  /\ \E i, j, k, l \in 1..Len(inserts) :
       /\ i < j /\ j < k /\ k < l
       /\ ~inserts[i].ok /\ Len(inserts[i].data) = batch_size
       /\ inserts[j].table = inserts[i].table /\ inserts[j].ok
       /\ ~inserts[k].ok /\ inserts[k].table # inserts[i].table
       /\ inserts[l].ok /\ inserts[l].table \notin {inserts[i].table, inserts[k].table}

\* The insert calls the sink refused.
FailedWrites == {i \in 1..Len(inserts) : ~inserts[i].ok}

\* C11: a batch whose write failed is discarded, not requeued or retried: after
\* a threshold flush the sink refused, the table's buffer is empty as after an
\* accepted one; each row of a refused batch is handed to the sink in that one
\* call and no other, and is in no accepted call, so it is missing from the
\* destination when the run stops.
FailedBatchDiscarded ==
  /\ [][\A t \in TableSet :
          (pc = "loop" /\ Len(inserts') = Len(inserts) + 1
             /\ inserts'[Len(inserts')].table = t)
            => batch_data'[t] = <<>>]_vars
  /\ [](\A i \in FailedWrites : \A k \in 1..Len(inserts[i].data) :
          /\ \A p \in Places(inserts[i].table) :
                RowAt(p) = inserts[i].data[k] => p = <<i, k>>
          /\ pc = "loop" =>
                inserts[i].data[k] \notin RowsOfSeq(batch_data[inserts[i].table]))

\* C11's case: the run stopped after the sink refused a full batch of a table
\* and later took a further write for the same table.
FailedBatchDiscardedWitness ==
  /\ pc = "stopped"
  /\ \E i \in FailedWrites : \E j \in 1..Len(inserts) :
        /\ i < j
        /\ inserts[j].table = inserts[i].table
        /\ inserts[j].ok
        /\ Len(inserts[i].data) = batch_size

\* The step polled an end-of-partition marker or a poll error.
PolledErrorEvent == pc = "loop" /\ msg' # msg /\ msg'.kind \in {"eof", "error"}
\* The step polled a message of a topic the mapping does not hold.
PolledUnknownTopic ==
  PolledMessage /\ msg'.topic \notin {MappedTopics[i] : i \in 1..Len(MappedTopics)}

\* C12: a message of an unmapped topic, an end-of-partition marker and a poll
\* error each store nothing: the step leaves every buffer, the insert log and
\* message_count as they were, raises nothing, and the driver stays in the poll
\* loop for the next poll.
SkippedEventsChangeNothing ==
  [][(PolledErrorEvent \/ PolledUnknownTopic) =>
       /\ UNCHANGED <<batch_data, inserts, message_count, consumer_closed>>
       /\ pc' = "loop"]_vars

\* C12's case: with one kept row buffered and counted, a message of the unmapped
\* topic was polled, and the row is still buffered and the count still one.
SkippedEventsWitness ==
  /\ pc = "loop"
  /\ message_count = 1
  /\ \E t \in TableSet : Len(batch_data[t]) = 1
  /\ msg.kind = "message"
  /\ msg.topic = UnknownTopic
  /\ polled = 2

\* The client constructor or the connection test found the sink or the broker
\* unreachable.
ConnectionFailed == connections \in {"client_failed", "clickhouse_failed", "kafka_failed"}
\* Nothing of the run proper has happened: no table was created or cleared, no
\* consumer subscribed, no message was polled, nothing was written.
NothingStarted ==
  /\ create_result = "not_run"
  /\ ~clear_ran
  /\ old_rows = TableSet
  /\ consumer_group = NoGroup
  /\ pc = "idle"
  /\ polled = 0
  /\ inserts = <<>>

\* C13: start-up fails fast: when the connectivity check fails, for the broker
\* or for the sink, main has returned before any table creation, table
\* clearing, subscription or consumption, whatever the command line, --reset
\* included.
FailFastStart == ConnectionFailed => (main_pc = "exited" /\ NothingStarted)

\* C13's case: a --reset run whose sink answered and whose broker did not has
\* exited.
FailFastStartWitness ==
  /\ argv = "--reset"
  /\ connections = "kafka_failed"
  /\ main_pc = "exited"

\* C14: table creation failure is fatal: once a CREATE TABLE statement has
\* failed, the run never subscribes, polls nothing, clears no table and writes
\* nothing.
TableCreationFailureAborts ==
  create_result = "failed" =>
    /\ consumer_group = NoGroup
    /\ pc = "idle"
    /\ polled = 0
    /\ inserts = <<>>
    /\ ~clear_ran
    /\ old_rows = TableSet

\* A fatal error of start-up: the sink or the broker unreachable, at the
\* connection test or when the consumer is built, or a table not created.
FatalError ==
  \/ ConnectionFailed
  \/ create_result = "failed"
  \/ pc = "failed" /\ consumer_group = NoGroup
\* The run streamed and came to its normal end: the driver stopped, or the
\* operator interrupted a continuous run.
StreamedToEnd ==
  /\ consumer_group # NoGroup
  /\ pc = "stopped" \/ (pc = "interrupted" /\ realtime)

\* C15: the process exits with a non-zero status after every fatal error, and
\* with status zero only after a run that streamed and reached its normal end
\* (the help text aside).
ExitStatusTellsFatal ==
  (main_pc = "exited" /\ argv # "--help") =>
    /\ FatalError => exit_status # 0
    /\ exit_status = 0 => StreamedToEnd

\* C16: in a --reset run consumption starts only after every destination table
\* has been cleared and a fresh consumer group adopted: once a message has been
\* polled, no table holds rows of an earlier run and the consumer's group is
\* not the shared one; no consumer of the run ever joins the shared group, whose
\* committed offsets therefore stay as they were.
ResetStartsClean ==
  argv = "--reset" =>
    /\ consumer_group # SharedGroup
    /\ polled >= 1 => (clear_ran /\ old_rows = {} /\ consumer_group = FreshGroup)

\* Auxiliary to C16: the part of it that the code keeps. The clearing is
\* attempted and the fresh group adopted before the consumer subscribes.
ResetAdoptsFreshGroup ==
  (argv = "--reset" /\ pc # "idle" /\ consumer_group # NoGroup) =>
    (clear_ran /\ consumer_group = FreshGroup)

\* The rows a table's buffer or its insert calls hold.
KnownRows(t) == RowsOfSeq(batch_data[t]) \cup Handed(t)
\* The rows the step added for table t.
NewRows(t) == KnownRows(t)' \ KnownRows(t)
\* The table the mapping gives for the topic of message m, read off the mapping
\* itself.
RoutedTo(m, t) == \E i \in 1..Len(MappedTopics) : MappedTopics[i] = m.topic /\ Tables[i] = t

\* C17: provenance: every row that enters a buffer or an insert call is built
\* from exactly one polled message, in the step that polls it: it carries that
\* message's payload as delivered, that message's offset and that message's
\* partition, and it is a row of the table mapped from that message's topic. No
\* other step adds a row, so every row handed to the sink is such a row.
RowsCarryTheirMessage ==
  [][\A t \in TableSet :
       /\ NewRows(t) # {} =>
            /\ PolledMessage
            /\ RoutedTo(msg', t)
            /\ NewRows(t) = {[raw_data |-> msg'.value, _kafka_offset |-> msg'.offset,
                              _kafka_partition |-> msg'.partition]}
       /\ Handed(t)' \subseteq Handed(t) \cup RowsOfSeq(batch_data[t]) \cup NewRows(t)]_vars

\* C17's case: the sink was handed, for the orders table, the row of the second
\* message of partition 1 of the orders topic, and a message of another topic
\* has been polled since.
RowsCarryTheirMessageWitness ==
  /\ [raw_data |-> P_object, _kafka_offset |-> 1, _kafka_partition |-> 1]
       \in Handed(Tables[3])
  /\ msg.kind = "message"
  /\ msg.topic = MappedTopics[1]

\* C18: however a run ends, by its message cap, its timeout, the operator's
\* interrupt or an exception out of the poll call, the consumer has been closed
\* and every buffered row handed to the sink by the time the driver has stopped.
RunEndsClosedAndDrained ==
  pc \in {"stopped", "failed", "interrupted"} =>
    /\ consumer_closed
    /\ \A t \in TableSet : RowsOfSeq(batch_data[t]) \subseteq Handed(t)

\* Auxiliary to C18: the paths on which the code does close and drain, the
\* message cap and the timeout.
NormalEndClosedAndDrained ==
  pc = "stopped" =>
    /\ consumer_closed
    /\ \A t \in TableSet : RowsOfSeq(batch_data[t]) \subseteq Handed(t)

RECURSIVE WrittenUpTo(_, _)
\* The batches handed to the sink for table t in the first n insert calls, put
\* end to end in the order of the calls.
WrittenUpTo(t, n) ==
  IF n = 0 THEN <<>>
  ELSE IF inserts[n].table = t THEN WrittenUpTo(t, n - 1) \o inserts[n].data
       ELSE WrittenUpTo(t, n - 1)
Written(t) == WrittenUpTo(t, Len(inserts))
\* A row of a message the driver keeps: its payload parses to a JSON object
\* that is no tombstone.
IsKeptRow(row) ==
  /\ row.raw_data \notin {P_empty, P_blank, P_badutf8, P_malformed, P_array}
  /\ row.raw_data \notin {P_deleted, P_deleted_one}
\* The kept messages of table t's topic, in poll order.
KeptInPollOrder(t) == SelectSeq(source[t], IsKeptRow)
IsPrefix(a, b) == Len(a) <= Len(b) /\ a = SubSeq(b, 1, Len(a))

\* C19: per-table order is preserved: the batches handed to the sink for a
\* table, end to end in write order, are the kept messages of its topic in poll
\* order: always a prefix of them, followed in the loop by the table's buffer,
\* and all of them when the run has stopped.
OrderPreserved ==
  \A t \in TableSet :
    /\ IsPrefix(Written(t), KeptInPollOrder(t))
    /\ pc = "loop" => Written(t) \o batch_data[t] = KeptInPollOrder(t)
    /\ pc = "stopped" => Written(t) = KeptInPollOrder(t)

\* C19's case: a stopped bounded run wrote one table in two calls, a full batch
\* and the rest, and another table in one call of one row.
OrderPreservedWitness ==
  /\ pc = "stopped"
  /\ \E i, j \in 1..Len(inserts) :
       /\ i < j
       /\ inserts[i].table = inserts[j].table
       /\ Len(Written(inserts[i].table)) = batch_size + 1
  /\ \E t \in TableSet : Len(Written(t)) = 1

\* C20: the sink is never called with an empty batch: every insert call carries
\* at least one row; every call made from the loop (a threshold flush) carries
\* exactly batch_size rows; a call made by the drain carries what the buffer
\* holds, at least one row, and a buffer that a threshold flush emptied in the
\* iteration that reached the message cap is passed over.
NoEmptyBatch ==
  /\ \A i \in 1..Len(inserts) : Len(inserts[i].data) >= 1
  /\ pc = "loop" => \A i \in 1..Len(inserts) : Len(inserts[i].data) = batch_size
  /\ (pc = "stopped" /\ AllBuffersEmpty) =>
       \A i \in 1..Len(inserts) : Len(inserts[i].data) = batch_size

\* C20's case: the message that reached the cap also filled its table's batch;
\* the flush emptied the buffer and the run has stopped after that one call.
NoEmptyBatchWitness ==
  /\ pc = "stopped"
  /\ max_messages = batch_size
  /\ message_count = max_messages
  /\ AllBuffersEmpty
  /\ Len(inserts) = 1
  /\ Len(inserts[1].data) = batch_size

\* A cap that is given and positive; None and 0 are not.
PositiveCap(x) == x >= 1
\* The step leaves the poll loop for the drain.
LeavesLoop == pc = "loop" /\ pc' = "drain"

\* C21: disabled caps: in a bounded run the loop is left for the drain only
\* through a positive message cap that the count has reached, or through a
\* positive time cap that an empty poll finds exceeded; a message cap that is 0
\* or absent never stops the run, nor does a time cap that is 0 or absent, and a
\* run with neither cap positive never drains nor stops: it stays in the poll
\* loop unless it is interrupted or the poll call raises.
DisabledCapsNeverStop ==
  /\ [][(~realtime /\ LeavesLoop) =>
          \/ /\ PositiveCap(max_messages)
             /\ PolledMessage
             /\ message_count' >= max_messages
          \/ /\ PositiveCap(timeout_seconds)
             /\ msg'.kind = "none"
             /\ now - start_time > timeout_seconds]_vars
  /\ []((~realtime /\ ~PositiveCap(max_messages) /\ ~PositiveCap(timeout_seconds)) =>
          pc \in {"loop", "failed", "interrupted"})

\* C21's case: a bounded run with both caps 0 has kept and flushed a full batch,
\* the clock has run past every time cap, an empty poll has just returned, and
\* the run is still in the loop.
DisabledCapsWitness ==
  /\ ~realtime
  /\ max_messages = 0
  /\ timeout_seconds = 0
  /\ pc = "loop"
  /\ message_count >= batch_size
  /\ inserts # <<>>
  /\ now = MaxTime
  /\ msg.kind = "none"

====
